---- MODULE Spec2Model ----
(***************************************************************************)
(* Ticket lifecycle of src/Main.py: the tickets table (SQLite), the        *)
(* "Create Ticket" button workflow (TicketView.create_ticket) and the      *)
(* !close command workflow (cmd_close), run as concurrent asyncio tasks    *)
(* against an unreliable chat platform.  Every await is one step.          *)
(***************************************************************************)
EXTENDS Integers, Sequences, FiniteSets, TLC

\* ------------------------------------------------------------- bounds
\* at most MaxFaults calls fail although they could have succeeded
MaxFaults == 1
\* the time units that pass in one step of the clock
TickStep == 5
\* channels the platform creates in the runs where workflows run one at a
\* time and task slots are recycled (SpecSeq)
MaxChannels == 3
\* asyncio.sleep(10) in cmd_close
GraceDelay == 10

Guilds == {1, 2}
Users == {1, 2}
\* the asyncio tasks that run create_ticket, and those that run cmd_close
CreateTasks == {1, 2}
CloseTasks == {1, 2}
\* the channel ids the Store helpers are called with directly (SpecStore)
ChannelRefs == {1, 2, 3}

VARIABLES
    tickets,        \* the tickets table, rows in insertion order
    channels,       \* ids of the text channels that exist on the platform
    deleted,        \* ids of the channels the platform has deleted
    nextChannelId,  \* the id the platform gives the next channel it creates
    creating,       \* the create_ticket tasks: position, locals, last call
    closing,        \* the cmd_close tasks: position, locals, last call
    issued,         \* per guild: display numbers allocated, in call order
    strictSeq,      \* per guild: every create so far ran alone and succeeded
    faults,         \* how many calls have failed on a live platform or Store
    storeCall,      \* the last direct call of a Store helper, and its outcome
    SUPPORT_ROLE_ID,    \* the configured support role id; 0 when it is not set
    transcriptCall  \* the last direct call of create_transcript, and its file

vars == <<tickets, channels, deleted, nextChannelId, creating, closing,
          issued, strictSeq, faults, storeCall, SUPPORT_ROLE_ID, transcriptCall>>

\* ---------------------------------------------------------- environment
\* LOG_CHANNEL_ID = int(os.getenv("LOG_CHANNEL_ID")) if set, else None.  The
\* deployment modelled sets it; one that does not behaves as this one does
\* when bot.get_channel finds no channel (cmd_close_log).
LOG_CHANNEL_ID == "log"

\* datetime.utcnow(), as a logical clock that ticks with every insert.
utcnow == Len(tickets)

\* The values of SUPPORT_ROLE_ID: 0 when the variable is not set (None, which
\* "if SUPPORT_ROLE_ID" treats as it treats 0), 3 the id of a role of the
\* guild, 4 an id that guild.get_role does not resolve.  The support role is
\* a role of its own: its id is not that of a guild's @everyone role.
SupportRoleIds == {0, 3, 4}

\* The ids of the roles a guild has besides @everyone.
GuildRoles == {3}

\* guild.default_role: the @everyone role, whose id is the guild's id
default_role(g) == <<"role", g>>

\* guild.me: the bot's own member
guild_me == <<"member", 0>>

member(u) == <<"member", u>>

\* discord.PermissionOverwrite(**kwargs): the permissions passed as True are
\* allowed, those passed as False are denied, the others are inherited.
PermissionOverwrite(allowed, denied) == [allow |-> allowed, deny |-> denied]

\* Faulty variant of ticket_overwrites: the support role is added without
\* asking whether it is configured and whether the guild has it.
ticket_overwrites_any_role(g, author, support_role_id) ==
    LET rw == PermissionOverwrite({"read_messages", "send_messages"}, {})
    IN (<<"role", support_role_id>> :> rw) @@ (member(author) :> rw)
          @@ (guild_me :> rw)
          @@ (default_role(g) :> PermissionOverwrite({}, {"read_messages"}))

\* overwrites = {guild.default_role: ..., guild.me: ..., author: ...}, then
\* "if SUPPORT_ROLE_ID: role = guild.get_role(...); if role: overwrites[role]
\* = ...".  A dict keeps the value assigned last to a key.
ticket_overwrites(g, author, support_role_id) ==
    LET rw == PermissionOverwrite({"read_messages", "send_messages"}, {})
        base == (member(author) :> rw) @@ (guild_me :> rw)
                   @@ (default_role(g) :> PermissionOverwrite({}, {"read_messages"}))
    IN IF support_role_id # 0 /\ support_role_id \in GuildRoles
       THEN (<<"role", support_role_id>> :> rw) @@ base
       ELSE base

\* ------------------------------------------------------ database helpers
NoRow == [none |-> TRUE]

RowsOf(t, c) == {i \in DOMAIN t : t[i].channel_id = c}

\* Faulty variants of create_ticket_record: the row is inserted as 'closed';
\* the owner and guild columns are swapped; channel_id is not UNIQUE.
create_ticket_record_closed(t, g, c, o, ts) ==
    IF RowsOf(t, c) # {}
    THEN [tickets |-> t, err |-> "IntegrityError"]
    ELSE [tickets |-> Append(t, [id |-> Len(t) + 1, guild_id |-> g,
                                  channel_id |-> c, owner_id |-> o,
                                  status |-> "closed", created_at |-> ts]),
          err |-> "none"]

create_ticket_record_swapped(t, g, c, o, ts) ==
    IF RowsOf(t, c) # {}
    THEN [tickets |-> t, err |-> "IntegrityError"]
    ELSE [tickets |-> Append(t, [id |-> Len(t) + 1, guild_id |-> o,
                                  channel_id |-> c, owner_id |-> g,
                                  status |-> "open", created_at |-> ts]),
          err |-> "none"]

create_ticket_record_not_unique(t, g, c, o, ts) ==
    [tickets |-> Append(t, [id |-> Len(t) + 1, guild_id |-> g,
                             channel_id |-> c, owner_id |-> o,
                             status |-> "open", created_at |-> ts]),
     err |-> "none"]

\* Faulty variant of create_ticket_record: the INSERT is not committed.
create_ticket_record_uncommitted(t, g, c, o, ts) ==
    [tickets |-> t, err |-> "none"]

\* INSERT INTO tickets ... VALUES (?, ?, ?, 'open', ?); channel_id is UNIQUE
create_ticket_record(t, g, c, o, ts) ==
    IF RowsOf(t, c) # {}
    THEN [tickets |-> t, err |-> "IntegrityError"]
    ELSE [tickets |-> Append(t, [id |-> Len(t) + 1, guild_id |-> g,
                                  channel_id |-> c, owner_id |-> o,
                                  status |-> "open", created_at |-> ts]),
          err |-> "none"]

\* Faulty variants of close_ticket_record: the UPDATE is not committed;
\* closing a record that is not open is an error; the UPDATE has no WHERE.
close_ticket_record_all(t, c) ==
    [tickets |-> [i \in DOMAIN t |-> [t[i] EXCEPT !.status = "closed"]],
     err |-> "none"]

close_ticket_record_uncommitted(t, c) == [tickets |-> t, err |-> "none"]

close_ticket_record_strict(t, c) ==
    IF \E i \in RowsOf(t, c) : t[i].status = "open"
    THEN [tickets |-> [i \in DOMAIN t |->
                         IF t[i].channel_id = c
                         THEN [t[i] EXCEPT !.status = "closed"] ELSE t[i]],
          err |-> "none"]
    ELSE [tickets |-> t, err |-> "NotOpen"]

\* UPDATE tickets SET status = 'closed' WHERE channel_id = ?
close_ticket_record(t, c) ==
    [tickets |-> [i \in DOMAIN t |->
                    IF t[i].channel_id = c
                    THEN [t[i] EXCEPT !.status = "closed"] ELSE t[i]],
     err |-> "none"]

\* SELECT ... WHERE channel_id = ?; fetchone()
get_ticket_by_channel(t, c) ==
    IF RowsOf(t, c) = {} THEN NoRow
    ELSE t[CHOOSE i \in RowsOf(t, c) : \A j \in RowsOf(t, c) : i <= j]

\* Faulty variant of next_ticket_number: only the open tickets are counted.
next_ticket_number_open(t, g) ==
    Cardinality({i \in DOMAIN t :
                    t[i].guild_id = g /\ t[i].status = "open"}) + 1

\* SELECT COUNT(*) FROM tickets WHERE guild_id = ?; cnt + 1
next_ticket_number(t, g) ==
    Cardinality({i \in DOMAIN t : t[i].guild_id = g}) + 1


\* ------------------------------------------------------------- platform
\* A call to the platform or the Store may succeed or fail; at most
\* MaxFaults such failures are injected in a run.
AnyOutcome == IF faults < MaxFaults THEN {"ok", "fail"} ELSE {"ok"}

\* A call on a channel the platform has deleted always fails.
Outcomes(c) == IF c \in channels THEN AnyOutcome ELSE {"fail"}

\* A Store access either runs its statement or fails on I/O.
DbOutcomes == AnyOutcome

\* The failure of a call that could have succeeded is counted.
Charge(res, forced) ==
    faults' = IF res = "fail" /\ ~forced THEN faults + 1 ELSE faults

ChargeOn(res, c) == Charge(res, c \notin channels)

Finished(pc) == pc \in {"done", "failed"}

Running(pc) == pc \notin {"idle", "done", "failed"}

\* Each task records the last call it made and how the call ended.
NoCall == <<"none", "ok">>

\* The number of task slots in use.
Busy ==
    Cardinality({w \in CreateTasks : creating[w].pc # "idle"})
        + Cardinality({k \in CloseTasks : closing[k].pc # "idle"})

NoStoreCall == [op |-> "none", guild_id |-> 0, channel_id |-> 0,
                owner_id |-> 0, err |-> "none"]

IdleCreate == [pc |-> "idle", guild |-> 0, author |-> 0, ticket_num |-> 0,
               overwrites |-> <<>>, channel |-> -1, last |-> NoCall]

NoTranscriptCall == [history |-> <<>>, file |-> <<>>, written |-> FALSE]

IdleClose == [pc |-> "idle", channel |-> -1, row |-> NoRow, left |-> 0,
              slept |-> 0, last |-> NoCall]

\* The table is empty (init_db); the guild has one channel, 0, that is not a
\* ticket channel; the platform numbers the channels it creates from 1.
Started ==
    /\ tickets = <<>>
    /\ channels = {0}
    /\ deleted = {}
    /\ nextChannelId = 1
    /\ creating = [w \in CreateTasks |-> IdleCreate]
    /\ closing = [k \in CloseTasks |-> IdleClose]
    /\ issued = [g \in Guilds |-> <<>>]
    /\ strictSeq = [g \in Guilds |-> TRUE]
    /\ faults = 0
    /\ storeCall = NoStoreCall
    /\ transcriptCall = NoTranscriptCall

\* The deployment whose SUPPORT_ROLE_ID names a role of the guild.
Init == Started /\ SUPPORT_ROLE_ID \in GuildRoles

\* Any deployment: SUPPORT_ROLE_ID set or not, its role found or not.
InitAnyRole == Started /\ SUPPORT_ROLE_ID \in SupportRoleIds

\* ---------------------------------------------- TicketView.create_ticket
\* The bookkeeping of "executed strictly sequentially, all succeed": a create
\* that fails, or that starts while another create of the guild is running,
\* ends the guild's sequential run.
EndRun(g) ==
    /\ strictSeq' = [strictSeq EXCEPT ![g] = FALSE]
    /\ issued' = [issued EXCEPT ![g] = <<>>]

CreateStep(w, pc, op, res) ==
    [creating[w] EXCEPT !.pc = pc, !.last = <<op, res>>]

\* The call op of task w raised: the exception leaves create_ticket.
CreateFails(w, op) ==
    /\ creating' = [creating EXCEPT ![w] = CreateStep(w, "failed", op, "fail")]
    /\ EndRun(creating[w].guild)

\* the button is pressed: await interaction.response.defer(ephemeral=True)
create_ticket_defer(w, g, u) ==
    /\ creating[w].pc = "idle"
    \* task slots are interchangeable: the lowest idle one runs the workflow
    /\ \A v \in CreateTasks : v < w => creating[v].pc # "idle"
    \* guild and user ids are interchangeable: the first create is by user 1
    \* in guild 1
    /\ tickets = <<>> /\ (\A v \in CreateTasks : creating[v].pc = "idle")
           => g = 1 /\ u = 1
    /\ \E res \in AnyOutcome :
         LET overlap == \E v \in CreateTasks \ {w} :
                            /\ Running(creating[v].pc)
                            /\ creating[v].guild = g
             task == [IdleCreate EXCEPT !.guild = g, !.author = u,
                          !.pc = IF res = "ok" THEN "number" ELSE "failed",
                          !.last = <<"defer", res>>]
         IN /\ creating' = [creating EXCEPT ![w] = task]
            /\ Charge(res, FALSE)
            /\ IF overlap \/ res = "fail"
               THEN EndRun(g)
               ELSE UNCHANGED <<strictSeq, issued>>
    /\ UNCHANGED <<tickets, channels, deleted, nextChannelId, closing, storeCall,
                   SUPPORT_ROLE_ID, transcriptCall>>

\* ticket_num = await next_ticket_number(guild.id)
create_ticket_number(w) ==
    /\ creating[w].pc = "number"
    /\ \E res \in DbOutcomes :
         /\ Charge(res, FALSE)
         /\ IF res = "ok"
            THEN LET g == creating[w].guild
                     n == next_ticket_number(tickets, g)
                 IN /\ creating' = [creating EXCEPT ![w] =
                           [CreateStep(w, "channel", "number", "ok")
                               EXCEPT !.ticket_num = n]]
                    /\ issued' = IF strictSeq[g]
                                 THEN [issued EXCEPT ![g] = Append(@, n)]
                                 ELSE issued
                    /\ UNCHANGED strictSeq
            ELSE CreateFails(w, "number")
    /\ UNCHANGED <<tickets, channels, deleted, nextChannelId, closing, storeCall,
                   SUPPORT_ROLE_ID, transcriptCall>>

\* Faulty variant of create_ticket_channel: the exception of
\* create_text_channel is swallowed and the workflow goes on to the insert,
\* with the id 0 of the channel the button is in.
create_ticket_channel_swallowed(w) ==
    /\ creating[w].pc = "channel"
    /\ \E res \in AnyOutcome :
         LET ov == ticket_overwrites(creating[w].guild, creating[w].author,
                                     SUPPORT_ROLE_ID)
         IN /\ Charge(res, FALSE)
            /\ creating' = [creating EXCEPT ![w] =
                   [CreateStep(w, "insert", "create_channel", res)
                       EXCEPT !.overwrites = ov,
                              !.channel = IF res = "ok" THEN nextChannelId
                                          ELSE 0]]
            /\ IF res = "ok"
               THEN /\ channels' = channels \cup {nextChannelId}
                    /\ nextChannelId' = nextChannelId + 1
               ELSE UNCHANGED <<channels, nextChannelId>>
            /\ UNCHANGED <<strictSeq, issued>>
    /\ UNCHANGED <<tickets, deleted, closing, storeCall,
                   SUPPORT_ROLE_ID, transcriptCall>>

\* overwrites = {...}; if SUPPORT_ROLE_ID: ...
\* channel = await guild.create_text_channel(channel_name, overwrites=...)
create_ticket_channel(w) ==
    /\ creating[w].pc = "channel"
    /\ \E res \in AnyOutcome :
         LET ov == ticket_overwrites(creating[w].guild, creating[w].author,
                                     SUPPORT_ROLE_ID)
         IN /\ Charge(res, FALSE)
            /\ IF res = "ok"
               THEN /\ creating' = [creating EXCEPT ![w] =
                           [CreateStep(w, "insert", "create_channel", "ok")
                               EXCEPT !.overwrites = ov,
                                      !.channel = nextChannelId]]
                    /\ channels' = channels \cup {nextChannelId}
                    /\ nextChannelId' = nextChannelId + 1
                    /\ UNCHANGED <<strictSeq, issued>>
               ELSE /\ creating' = [creating EXCEPT ![w] =
                           [CreateStep(w, "failed", "create_channel", "fail")
                               EXCEPT !.overwrites = ov]]
                    /\ EndRun(creating[w].guild)
                    /\ UNCHANGED <<channels, nextChannelId>>
    /\ UNCHANGED <<tickets, deleted, closing, storeCall,
                   SUPPORT_ROLE_ID, transcriptCall>>

\* Faulty variant of create_ticket_insert: the exception of
\* create_ticket_record is swallowed and the workflow goes on to announce.
create_ticket_insert_swallowed(w) ==
    /\ creating[w].pc = "insert"
    /\ \E res \in DbOutcomes :
         LET r == create_ticket_record(tickets, creating[w].guild,
                      creating[w].channel, creating[w].author, utcnow)
             ok == res = "ok" /\ r.err = "none"
         IN /\ Charge(res, FALSE)
            /\ tickets' = IF ok THEN r.tickets ELSE tickets
            /\ creating' = [creating EXCEPT ![w] =
                   CreateStep(w, "announce", "insert",
                              IF ok THEN "ok" ELSE "fail")]
            /\ UNCHANGED <<strictSeq, issued>>
    /\ UNCHANGED <<channels, deleted, nextChannelId, closing, storeCall,
                   SUPPORT_ROLE_ID, transcriptCall>>

\* await create_ticket_record(guild.id, channel.id, author.id)
create_ticket_insert(w) ==
    /\ creating[w].pc = "insert"
    /\ \E res \in DbOutcomes :
         LET r == create_ticket_record(tickets, creating[w].guild,
                      creating[w].channel, creating[w].author, utcnow)
         IN /\ Charge(res, FALSE)
            /\ IF res = "ok" /\ r.err = "none"
               THEN /\ tickets' = r.tickets
                    /\ creating' = [creating EXCEPT ![w] =
                           CreateStep(w, "announce", "insert", "ok")]
                    /\ UNCHANGED <<strictSeq, issued>>
               ELSE /\ CreateFails(w, "insert")
                    /\ UNCHANGED tickets
    /\ UNCHANGED <<channels, deleted, nextChannelId, closing, storeCall,
                   SUPPORT_ROLE_ID, transcriptCall>>

\* await channel.send(content=author.mention, embed=embed)
create_ticket_announce(w) ==
    /\ creating[w].pc = "announce"
    /\ \E res \in Outcomes(creating[w].channel) :
         /\ ChargeOn(res, creating[w].channel)
         /\ IF res = "ok"
            THEN /\ creating' = [creating EXCEPT ![w] =
                        CreateStep(w, "followup", "announce", "ok")]
                 /\ UNCHANGED <<strictSeq, issued>>
            ELSE CreateFails(w, "announce")
    /\ UNCHANGED <<tickets, channels, deleted, nextChannelId, closing, storeCall,
                   SUPPORT_ROLE_ID, transcriptCall>>

\* await interaction.followup.send(f"Ticket created: {channel.mention}")
create_ticket_followup(w) ==
    /\ creating[w].pc = "followup"
    /\ \E res \in AnyOutcome :
         /\ Charge(res, FALSE)
         /\ IF res = "ok"
            THEN /\ creating' = [creating EXCEPT ![w] =
                        CreateStep(w, "done", "followup", "ok")]
                 /\ UNCHANGED <<strictSeq, issued>>
            ELSE CreateFails(w, "followup")
    /\ UNCHANGED <<tickets, channels, deleted, nextChannelId, closing, storeCall,
                   SUPPORT_ROLE_ID, transcriptCall>>

\* ---------------------------------------------------------- cmd_close
CloseStep(k, pc, op, res) ==
    [closing[k] EXCEPT !.pc = pc, !.last = <<op, res>>]

\* Task k made the call op on its own channel, with outcome res, and goes on
\* at pc; nothing else of the program's state changes.
CloseCall(k, pc, op, res) ==
    /\ closing' = [closing EXCEPT ![k] = CloseStep(k, pc, op, res)]
    /\ ChargeOn(res, closing[k].channel)
    /\ UNCHANGED <<tickets, channels, deleted, nextChannelId, creating, issued, strictSeq,
                   storeCall,
                   SUPPORT_ROLE_ID, transcriptCall>>

\* Faulty variant of after_lookup: the "if not row" test is missing.
after_lookup_unchecked(res, row) == IF res = "fail" THEN "failed" ELSE "ack"

\* where cmd_close goes on after the lookup: an exception leaves the command;
\* "if not row" leads to the reply and the return
after_lookup(res, row) ==
    IF res = "fail" THEN "failed"
    ELSE IF row = NoRow THEN "not_ticket"
    ELSE "ack"

\* Faulty variant of after_transcript: the exception is swallowed.
after_transcript_swallowed(res) == "mark"

\* where cmd_close goes on after create_transcript: its exception is not
\* caught and leaves the command
after_transcript(res) == IF res = "ok" THEN "mark" ELSE "failed"

\* !close is typed in channel c: row = await get_ticket_by_channel(...)
cmd_close_lookup(k, c) ==
    /\ closing[k].pc = "idle"
    /\ \A j \in CloseTasks : j < k => closing[j].pc # "idle"
    /\ c \in channels
    /\ \E res \in DbOutcomes :
         LET row == get_ticket_by_channel(tickets, c)
             task == [IdleClose EXCEPT !.channel = c,
                         !.row = IF res = "ok" THEN row ELSE NoRow,
                         !.pc = after_lookup(res, row),
                         !.last = <<"lookup", res>>]
         IN /\ closing' = [closing EXCEPT ![k] = task]
            /\ Charge(res, FALSE)
    /\ UNCHANGED <<tickets, channels, deleted, nextChannelId, creating, issued, strictSeq, storeCall,
                   SUPPORT_ROLE_ID, transcriptCall>>

\* if not row: await ctx.send("This channel is not a ticket."); return
cmd_close_not_ticket(k) ==
    /\ closing[k].pc = "not_ticket"
    /\ \E res \in Outcomes(closing[k].channel) :
         CloseCall(k, IF res = "ok" THEN "done" ELSE "failed",
                   "not_a_ticket", res)

\* await ctx.send("Closing ticket - creating transcript...")
cmd_close_ack(k) ==
    /\ closing[k].pc = "ack"
    /\ \E res \in Outcomes(closing[k].channel) :
         CloseCall(k, IF res = "ok" THEN "transcript" ELSE "failed",
                   "ack", res)

\* transcript_file = await create_transcript(ctx.channel)
cmd_close_transcript(k) ==
    /\ closing[k].pc = "transcript"
    /\ \E res \in Outcomes(closing[k].channel) :
         CloseCall(k, after_transcript(res), "transcript", res)

\* await close_ticket_record(ctx.channel.id)
cmd_close_mark(k) ==
    /\ closing[k].pc = "mark"
    /\ \E res \in DbOutcomes :
         LET r == close_ticket_record(tickets, closing[k].channel)
         IN /\ Charge(res, FALSE)
            /\ IF res = "ok" /\ r.err = "none"
               THEN /\ tickets' = r.tickets
                    /\ closing' = [closing EXCEPT ![k] =
                           CloseStep(k, "log", "mark", "ok")]
               ELSE /\ UNCHANGED tickets
                    /\ closing' = [closing EXCEPT ![k] =
                           CloseStep(k, "failed", "mark", "fail")]
    /\ UNCHANGED <<channels, deleted, nextChannelId, creating, issued, strictSeq, storeCall,
                   SUPPORT_ROLE_ID, transcriptCall>>

\* A call of task k that is not made on its own channel.
CloseOther(k, pc, op, res) ==
    /\ closing' = [closing EXCEPT ![k] = CloseStep(k, pc, op, res)]
    /\ Charge(res, FALSE)
    /\ UNCHANGED <<tickets, channels, deleted, nextChannelId, creating, issued, strictSeq,
                   storeCall,
                   SUPPORT_ROLE_ID, transcriptCall>>

\* if LOG_CHANNEL_ID: log_ch = bot.get_channel(...); if log_ch: try:
\*     await log_ch.send(..., file=discord.File(transcript_file))
cmd_close_log(k) ==
    /\ closing[k].pc = "log"
    /\ \/ /\ LOG_CHANNEL_ID # "None"
          /\ \E res \in AnyOutcome :
               CloseOther(k, IF res = "ok" THEN "fetch_owner" ELSE "warn",
                          "log", res)
       \/ \* not configured, or bot.get_channel returns None: nothing is sent
          /\ closing' = [closing EXCEPT ![k].pc = "fetch_owner"]
          /\ UNCHANGED <<tickets, channels, deleted, nextChannelId, creating, issued, strictSeq,
                         faults, storeCall,
                   SUPPORT_ROLE_ID, transcriptCall>>

\* except Exception as e: await ctx.send("Failed to upload transcript ...")
cmd_close_warn(k) ==
    /\ closing[k].pc = "warn"
    /\ \E res \in Outcomes(closing[k].channel) :
         CloseCall(k, IF res = "ok" THEN "fetch_owner" ELSE "failed",
                   "warn", res)

\* try: owner = await bot.fetch_user(owner_id) ... except Exception: pass
cmd_close_fetch_owner(k) ==
    /\ closing[k].pc = "fetch_owner"
    /\ \E res \in AnyOutcome :
         CloseOther(k, IF res = "ok" THEN "dm" ELSE "edit",
                    "fetch_owner", res)

\* await owner.send(..., file=...) ... except Exception: pass
cmd_close_dm(k) ==
    /\ closing[k].pc = "dm"
    /\ \E res \in AnyOutcome : CloseOther(k, "edit", "dm", res)

\* await ctx.channel.edit(topic=f"Closed: {reason}")
cmd_close_edit(k) ==
    /\ closing[k].pc = "edit"
    /\ \E res \in Outcomes(closing[k].channel) :
         CloseCall(k, IF res = "ok" THEN "notice" ELSE "failed", "edit", res)

\* await ctx.send("Ticket closed. Channel will be deleted in 10 seconds.")
\* and the start of await asyncio.sleep(10)
cmd_close_notice(k) ==
    /\ closing[k].pc = "notice"
    /\ \E res \in Outcomes(closing[k].channel) :
         /\ closing' = [closing EXCEPT ![k] =
                [CloseStep(k, IF res = "ok" THEN "sleep" ELSE "failed",
                           "notice", res)
                    EXCEPT !.left = IF res = "ok" THEN GraceDelay ELSE 0]]
         /\ ChargeOn(res, closing[k].channel)
    /\ UNCHANGED <<tickets, channels, deleted, nextChannelId, creating, issued, strictSeq,
                   storeCall,
                   SUPPORT_ROLE_ID, transcriptCall>>

\* Faulty variant of cmd_close_delete: asyncio.sleep(10) is not awaited.
cmd_close_delete_at_once(k) ==
    /\ closing[k].pc = "sleep"
    /\ \E res \in Outcomes(closing[k].channel) :
         /\ closing' = [closing EXCEPT ![k] =
                CloseStep(k, IF res = "ok" THEN "done" ELSE "failed",
                          "delete", res)]
         /\ ChargeOn(res, closing[k].channel)
         /\ IF res = "ok"
            THEN /\ channels' = channels \ {closing[k].channel}
                 /\ deleted' = deleted \cup {closing[k].channel}
            ELSE UNCHANGED <<channels, deleted>>
    /\ UNCHANGED <<tickets, nextChannelId, creating,
                   issued, strictSeq, storeCall,
                   SUPPORT_ROLE_ID, transcriptCall>>

\* asyncio.sleep(10) has returned; await ctx.channel.delete(reason=...)
cmd_close_delete(k) ==
    /\ closing[k].pc = "sleep"
    /\ closing[k].left = 0
    /\ \E res \in Outcomes(closing[k].channel) :
         /\ closing' = [closing EXCEPT ![k] =
                CloseStep(k, IF res = "ok" THEN "done" ELSE "failed",
                          "delete", res)]
         /\ ChargeOn(res, closing[k].channel)
         /\ IF res = "ok"
            THEN /\ channels' = channels \ {closing[k].channel}
                 /\ deleted' = deleted \cup {closing[k].channel}
            ELSE UNCHANGED <<channels, deleted>>
    /\ UNCHANGED <<tickets, nextChannelId, creating,
                   issued, strictSeq, storeCall,
                   SUPPORT_ROLE_ID, transcriptCall>>

\* TickStep time units pass: every pending asyncio.sleep has slept that much
\* longer and has that much less to wait.
Tick ==
    /\ \E k \in CloseTasks : closing[k].pc = "sleep" /\ closing[k].left > 0
    /\ closing' = [k \in CloseTasks |->
                     IF closing[k].pc = "sleep" /\ closing[k].left > 0
                     THEN [closing[k] EXCEPT
                              !.left = IF @ > TickStep THEN @ - TickStep ELSE 0,
                              !.slept = @ + TickStep]
                     ELSE closing[k]]
    /\ UNCHANGED <<tickets, channels, deleted, nextChannelId,
                   creating, issued, strictSeq, faults, storeCall,
                   SUPPORT_ROLE_ID, transcriptCall>>

CreateNext(w) ==
    \/ \E g \in Guilds, u \in Users : create_ticket_defer(w, g, u)
    \/ create_ticket_number(w)
    \/ create_ticket_channel(w)
    \/ create_ticket_insert(w)
    \/ create_ticket_announce(w)
    \/ create_ticket_followup(w)

CloseNext(k) ==
    \/ \E c \in channels : cmd_close_lookup(k, c)
    \/ cmd_close_not_ticket(k)
    \/ cmd_close_ack(k)
    \/ cmd_close_transcript(k)
    \/ cmd_close_mark(k)
    \/ cmd_close_log(k)
    \/ cmd_close_warn(k)
    \/ cmd_close_fetch_owner(k)
    \/ cmd_close_dm(k)
    \/ cmd_close_edit(k)
    \/ cmd_close_notice(k)
    \/ cmd_close_delete(k)

Next ==
    \/ \E w \in CreateTasks : CreateNext(w)
    \/ \E k \in CloseTasks : CloseNext(k)
    \/ Tick

Spec == Init /\ [][Next]_vars

\* ------------------------------------------- workflows one at a time
\* A finished task is forgotten and its slot is free for the next workflow.
RetireCreate(w) ==
    /\ Finished(creating[w].pc)
    /\ creating' = [creating EXCEPT ![w] = IdleCreate]
    /\ UNCHANGED <<tickets, channels, deleted, nextChannelId, closing, issued,
                   strictSeq, faults, storeCall,
                   SUPPORT_ROLE_ID, transcriptCall>>

RetireClose(k) ==
    /\ Finished(closing[k].pc)
    /\ closing' = [closing EXCEPT ![k] = IdleClose]
    /\ UNCHANGED <<tickets, channels, deleted, nextChannelId, creating, issued,
                   strictSeq, faults, storeCall,
                   SUPPORT_ROLE_ID, transcriptCall>>

\* The workflows of Next, each started only when every other has finished and
\* its task is forgotten.
NextSeq ==
    \/ /\ Next
       /\ Busy' <= 1
       /\ nextChannelId' <= MaxChannels + 1
    \/ \E w \in CreateTasks : RetireCreate(w)
    \/ \E k \in CloseTasks : RetireClose(k)

SpecSeq == Init /\ [][NextSeq]_vars

\* ------------------------------------------- creates under any configuration
\* The create workflows of Next, one at a time, in a deployment with any
\* setting of SUPPORT_ROLE_ID.
NextAnyRole ==
    \/ /\ \E w \in CreateTasks : CreateNext(w)
       /\ Busy' <= 1
       /\ nextChannelId' <= MaxChannels + 1
    \/ \E w \in CreateTasks : RetireCreate(w)

SpecAnyRole == InitAnyRole /\ [][NextAnyRole]_vars

\* ------------------------------------------- the Store helpers, called directly
store_insert(g, c, o) ==
    LET r == create_ticket_record(tickets, g, c, o, utcnow)
    IN /\ tickets' = r.tickets
       /\ storeCall' = [op |-> "insert", guild_id |-> g, channel_id |-> c,
                        owner_id |-> o, err |-> r.err]
       /\ UNCHANGED <<channels, deleted, nextChannelId, creating, closing,
                      issued, strictSeq, faults, SUPPORT_ROLE_ID,
                      transcriptCall>>

store_mark_closed(c) ==
    LET r == close_ticket_record(tickets, c)
    IN /\ tickets' = r.tickets
       /\ storeCall' = [op |-> "mark_closed", guild_id |-> 0, channel_id |-> c,
                        owner_id |-> 0, err |-> r.err]
       /\ UNCHANGED <<channels, deleted, nextChannelId, creating, closing,
                      issued, strictSeq, faults, SUPPORT_ROLE_ID,
                      transcriptCall>>

NextStore ==
    \/ \E g \in Guilds, c \in ChannelRefs, o \in Users : store_insert(g, c, o)
    \/ \E c \in ChannelRefs : store_mark_closed(c)

SpecStore == Init /\ [][NextStore]_vars

\* ------------------------------------------- create_transcript, called directly
\* Text is a sequence of characters; a timestamp, a name, an id or a URL, none
\* of which holds a line break, is one element of it.
MaxMessages == 2

Authors == {[name |-> "ann", id |-> 1], [name |-> "bob", id |-> 2]}

\* msg.content: empty, one line, or two lines
Contents == {<<>>, <<"h", "i">>, <<"a", "\n", "b">>}

\* msg.attachments, as the URLs of the attachments
AttachmentLists == {<<>>, <<"url1">>, <<"url1", "url2">>}

Messages ==
    [author : Authors, content : Contents, attachments : AttachmentLists]

\* channel.history(limit=None, oldest_first=True): the messages of the
\* channel, oldest first; the i-th was created at time i
Histories ==
    UNION {[1..n -> Messages] : n \in 0..MaxMessages}

\* sep.join(parts)
RECURSIVE join(_, _)
join(sep, parts) ==
    IF parts = <<>> THEN <<>>
    ELSE IF Len(parts) = 1 THEN parts[1]
    ELSE parts[1] \o <<sep>> \o join(sep, Tail(parts))

\* f"[{ts}] {author}: {content} {attachments}" with ts =
\* msg.created_at.isoformat(), author = f"{msg.author} ({msg.author.id})" and
\* attachments = " ".join(a.url for a in msg.attachments), or "" without any
format_message(created_at, msg) ==
    LET ts == <<ToString(created_at)>>
        author == <<msg.author.name, " ", "(", ToString(msg.author.id), ")">>
        attachments == IF msg.attachments # <<>>
                       THEN join(" ", [i \in DOMAIN msg.attachments |->
                                          <<msg.attachments[i]>>])
                       ELSE <<>>
    IN <<"[">> \o ts \o <<"]", " ">> \o author \o <<":", " ">>
          \o msg.content \o <<" ">> \o attachments

\* transcript = "\n".join(messages) or "No messages"; f.write(transcript)
create_transcript(history) ==
    LET messages == [i \in DOMAIN history |-> format_message(i, history[i])]
        transcript == join("\n", messages)
    IN IF transcript # <<>> THEN transcript ELSE <<"No messages">>

transcript_call(history) ==
    /\ transcriptCall' = [history |-> history,
                          file |-> create_transcript(history),
                          written |-> TRUE]
    /\ UNCHANGED <<tickets, channels, deleted, nextChannelId, creating,
                   closing, issued, strictSeq, faults, storeCall,
                   SUPPORT_ROLE_ID>>

NextTranscript == \E history \in Histories : transcript_call(history)

SpecTranscript == Init /\ [][NextTranscript]_vars

\* ================================================================ claims
HasRow(t, c) == RowsOf(t, c) # {}

\* The status of the record of channel c in table t; "none" without a record.
StatusIn(t, c) ==
    IF HasRow(t, c) THEN get_ticket_by_channel(t, c).status ELSE "none"

Status(c) == StatusIn(tickets, c)

ChannelIdsIn(t) == {t[i].channel_id : i \in DOMAIN t}

\* Task k has taken a step.
Stepped(k) == closing'[k] # closing[k]

\* C1: the closure workflow calls delete-channel, and waits to call it, only
\* when the record of its channel is Closed; every channel it has deleted has a
\* Closed record.
C1_ClosedBeforeDelete ==
    /\ \A k \in CloseTasks :
         closing[k].pc = "sleep" \/ closing[k].last[1] = "delete"
            => Status(closing[k].channel) = "closed"
    /\ \A c \in deleted : Status(c) = "closed"

C1_Witness ==
    \E k \in CloseTasks :
        /\ closing[k].last = <<"delete", "ok">>
        /\ closing[k].channel \in deleted
        /\ Status(closing[k].channel) = "closed"

\* C2: in every step the status of every record stays as it is, or goes from
\* no record to Open, or from Open to Closed; no record is removed.
C2_StatusTransitions ==
    [][\A c \in ChannelIdsIn(tickets) \cup ChannelIdsIn(tickets') :
         \/ StatusIn(tickets', c) = StatusIn(tickets, c)
         \/ StatusIn(tickets, c) = "none" /\ StatusIn(tickets', c) = "open"
         \/ StatusIn(tickets, c) = "open" /\ StatusIn(tickets', c) = "closed"
      ]_vars

C2_Witness ==
    \E i \in DOMAIN tickets, j \in DOMAIN tickets :
        tickets[i].status = "closed" /\ tickets[j].status = "open"

\* C3: when create_transcript fails, the step changes neither the table nor
\* the platform's channels, and the task ends there: it makes no further call.
C3_HistoryFailureAborts ==
    /\ [](\A k \in CloseTasks :
            closing[k].last = <<"transcript", "fail">>
                => closing[k].pc = "failed")
    /\ [][\A k \in CloseTasks :
            /\ closing[k].pc = "transcript" /\ closing'[k].pc = "failed"
                  => /\ closing'[k].last = <<"transcript", "fail">>
                     /\ UNCHANGED <<tickets, channels, deleted>>
            /\ closing[k].pc = "failed" => ~Stepped(k)
         ]_vars

C3_Witness ==
    \E k \in CloseTasks :
        /\ closing[k].last = <<"transcript", "fail">>
        /\ closing[k].pc = "failed"
        /\ Status(closing[k].channel) = "open"

\* C4: a lookup that finds no record leads to the "not a ticket" reply and to
\* nothing else: the task's only later call is that reply, after which it has
\* finished, and none of its steps changes the table or the channels.
C4_NotATicket ==
    /\ [](\A k \in CloseTasks :
            closing[k].last = <<"lookup", "ok">> /\ closing[k].row = NoRow
                => closing[k].pc = "not_ticket")
    /\ [][\A k \in CloseTasks :
            /\ closing[k].pc = "idle" /\ Stepped(k)
                 /\ closing'[k].last = <<"lookup", "ok">>
                 /\ ~HasRow(tickets, closing'[k].channel)
                  => closing'[k].row = NoRow /\ UNCHANGED tickets
            /\ closing[k].pc = "not_ticket" /\ Stepped(k)
                  => /\ closing'[k].last[1] = "not_a_ticket"
                     /\ Finished(closing'[k].pc)
                     /\ UNCHANGED <<tickets, channels, deleted>>
            /\ closing[k].last[1] = "not_a_ticket" => ~Stepped(k)
         ]_vars

C4_Witness ==
    \E k \in CloseTasks :
        /\ closing[k].pc = "done"
        /\ closing[k].last = <<"not_a_ticket", "ok">>
        /\ ~HasRow(tickets, closing[k].channel)

\* C5 (as claimed): a transcript delivery that fails, to the log channel or
\* to the owner, is followed by a warning to the closing actor.
C5_DeliveryFailureWarned ==
    \A k \in CloseTasks :
        /\ closing[k].last[1] \in {"log", "fetch_owner", "dm"}
        /\ closing[k].last[2] = "fail"
        => closing[k].pc = "warn"

\* C6 (as claimed): when the edit of the channel topic fails, the workflow
\* goes on to the closure notice.
C6_MetadataBestEffort ==
    \A k \in CloseTasks :
        closing[k].last = <<"edit", "fail">> => closing[k].pc = "notice"

\* C7: while the creates of a guild have run one after the other and all
\* succeeded, the i-th display number allocated in the guild is i.
C7_SequentialNumbers ==
    \A g \in Guilds :
        strictSeq[g] => \A i \in DOMAIN issued[g] : issued[g][i] = i

C7_Witness ==
    \E g \in Guilds :
        /\ strictSeq[g]
        /\ Len(issued[g]) = 3
        /\ \E i \in DOMAIN tickets :
              tickets[i].guild_id = g /\ tickets[i].status = "closed"

\* Task w has inserted its row.
Inserted(w) ==
    \/ creating[w].pc \in {"announce", "followup", "done"}
    \/ creating[w].pc = "failed" /\ creating[w].last[1] \in {"announce", "followup"}

SameNumber(v, w) ==
    /\ v # w
    /\ creating[v].guild = creating[w].guild
    /\ creating[v].ticket_num = creating[w].ticket_num
    /\ creating[v].ticket_num > 0

\* C8: of two creates that computed the same display number in the same guild,
\* neither insert hits the UNIQUE constraint; once both have inserted, their
\* channels differ and each channel's row has the task's own requester as
\* owner; the row an insert adds is Open.
C8_SameNumberBothSucceed ==
    /\ [](\A v \in CreateTasks, w \in CreateTasks :
            SameNumber(v, w) =>
              /\ creating[w].pc = "insert" =>
                    create_ticket_record(tickets, creating[w].guild,
                        creating[w].channel, creating[w].author, utcnow).err
                      = "none"
              /\ Inserted(v) /\ Inserted(w) =>
                    /\ creating[v].channel # creating[w].channel
                    /\ HasRow(tickets, creating[w].channel)
                    /\ get_ticket_by_channel(tickets, creating[w].channel).owner_id
                          = creating[w].author
                    /\ get_ticket_by_channel(tickets, creating[w].channel).guild_id
                          = creating[w].guild)
    /\ [][\A w \in CreateTasks :
            creating[w].pc = "insert" /\ creating'[w].pc = "announce" =>
              /\ Len(tickets') = Len(tickets) + 1
              /\ tickets'[Len(tickets')].channel_id = creating[w].channel
              /\ tickets'[Len(tickets')].status = "open"
         ]_vars

C8_Witness ==
    \E v \in CreateTasks, w \in CreateTasks :
        /\ SameNumber(v, w)
        /\ Inserted(v) /\ Inserted(w)
        /\ creating[v].author # creating[w].author
        /\ Len(tickets) = 2

\* C9: no two rows have the same channel_id; an insert for a channel_id that
\* has a row raises IntegrityError and leaves the table as it is, and any
\* other insert appends one row.
C9_ChannelRefUnique ==
    /\ [](\A i \in DOMAIN tickets, j \in DOMAIN tickets :
            i # j => tickets[i].channel_id # tickets[j].channel_id)
    /\ [][storeCall'.op = "insert" =>
            IF HasRow(tickets, storeCall'.channel_id)
            THEN storeCall'.err = "IntegrityError" /\ tickets' = tickets
            ELSE storeCall'.err = "none" /\ Len(tickets') = Len(tickets) + 1
         ]_vars

C9_Witness ==
    /\ storeCall.op = "insert"
    /\ storeCall.err = "IntegrityError"
    /\ HasRow(tickets, storeCall.channel_id)

\* C10: close_ticket_record on a channel whose record is Closed raises no
\* error and returns the table as it is; no step of a closure workflow, failed
\* or not, changes the table once the record of its channel is Closed.
C10_CloseTwice ==
    /\ [](\A c \in ChannelIdsIn(tickets) :
            Status(c) = "closed" =>
                close_ticket_record(tickets, c)
                    = [tickets |-> tickets, err |-> "none"])
    /\ [][\A k \in CloseTasks :
            Status(closing[k].channel) = "closed" /\ Stepped(k)
                => tickets' = tickets
         ]_vars

C10_Witness ==
    \E k \in CloseTasks :
        /\ closing[k].row # NoRow
        /\ closing[k].row.status = "closed"
        /\ closing[k].pc = "failed"
        /\ closing[k].last[1] \in {"warn", "edit", "notice", "delete"}

\* C11 (as claimed): close_ticket_record called for a channel_id that has no
\* row ends with the error NotFound.  (Rows are never removed, so a channel_id
\* without a row after the call had none before it.)
C11_MarkClosedNotFound ==
    storeCall.op = "mark_closed" /\ ~HasRow(tickets, storeCall.channel_id)
        => storeCall.err = "NotFound"

\* The channels the platform has created on a create_text_channel call that
\* succeeded.
CreatedChannels == (channels \cup deleted) \ {0}

\* C12: a create_text_channel call that fails ends the workflow there: the
\* step leaves the table, and so the guild's ticket count, as it is, the task
\* has no channel and never takes another step; and every row's channel_id is
\* that of a channel a successful create_text_channel call has created.
C12_ChannelFailureAborts ==
    /\ [](\A w \in CreateTasks :
            creating[w].last = <<"create_channel", "fail">>
                => creating[w].pc = "failed" /\ creating[w].channel = -1)
    /\ [](\A i \in DOMAIN tickets : tickets[i].channel_id \in CreatedChannels)
    /\ [][\A w \in CreateTasks :
            /\ creating[w].pc = "channel"
                 /\ creating'[w].last = <<"create_channel", "fail">>
                  => /\ tickets' = tickets
                     /\ next_ticket_number(tickets', creating[w].guild)
                           = next_ticket_number(tickets, creating[w].guild)
            /\ creating[w].pc = "failed" => creating'[w] = creating[w]
         ]_vars

C12_Witness ==
    \E w \in CreateTasks :
        /\ creating[w].last = <<"create_channel", "fail">>
        /\ creating[w].pc = "failed"
        /\ \E i \in DOMAIN tickets :
              tickets[i].guild_id = creating[w].guild

\* C13: in every step of every workflow, failed ones included, the number
\* next_ticket_number gives for a guild stays or grows; and the number a create
\* is given is no smaller than any number given before in its guild.
C13_NumbersNonDecreasing ==
    [][/\ \A g \in Guilds :
            next_ticket_number(tickets', g) >= next_ticket_number(tickets, g)
       /\ \A w \in CreateTasks :
            creating[w].pc = "number" /\ creating'[w].pc = "channel" =>
                \A v \in CreateTasks :
                    creating[v].guild = creating[w].guild
                        => creating'[w].ticket_num >= creating[v].ticket_num
      ]_vars

C13_Witness ==
    \E w \in CreateTasks :
        /\ creating[w].ticket_num = 2
        /\ faults > 0
        /\ \E i \in DOMAIN tickets :
              /\ tickets[i].guild_id = creating[w].guild
              /\ tickets[i].status = "closed"

\* The lines of a text: what stands between its line breaks.
RECURSIVE SplitLines(_)
SplitLines(text) ==
    IF \A i \in DOMAIN text : text[i] # "\n" THEN <<text>>
    ELSE LET i == CHOOSE i \in DOMAIN text :
                     text[i] = "\n" /\ \A j \in 1..(i - 1) : text[j] # "\n"
         IN <<SubSeq(text, 1, i - 1)>>
               \o SplitLines(SubSeq(text, i + 1, Len(text)))

\* C14 (as claimed): the transcript of an empty history is "No messages"; the
\* transcript of n >= 1 messages has exactly n lines, the i-th being the
\* timestamp, author, author id, body and attachment URLs of the i-th message.
C14_TranscriptLines ==
    transcriptCall.written =>
        LET history == transcriptCall.history
            lines == SplitLines(transcriptCall.file)
        IN IF history = <<>>
           THEN transcriptCall.file = <<"No messages">>
           ELSE /\ Len(lines) = Len(history)
                /\ \A i \in DOMAIN history :
                      lines[i] = format_message(i, history[i])

\* C15: no step removes a row or changes a row's id, guild_id, channel_id,
\* owner_id or created_at; a row's status changes only in the step in which a
\* closure workflow marks that row's channel, and that step changes no row of
\* another channel and adds none.
C15_CloseFrame ==
    [][/\ Len(tickets') >= Len(tickets)
       /\ \A i \in DOMAIN tickets :
            /\ tickets'[i] = [tickets[i] EXCEPT !.status = tickets'[i].status]
            /\ tickets'[i].status # tickets[i].status =>
                 \E k \in CloseTasks :
                     /\ closing[k].pc = "mark"
                     /\ closing'[k].last = <<"mark", "ok">>
                     /\ closing[k].channel = tickets[i].channel_id
       /\ \A k \in CloseTasks :
            closing[k].pc = "mark" /\ Stepped(k) =>
                /\ Len(tickets') = Len(tickets)
                /\ \A i \in DOMAIN tickets :
                      tickets[i].channel_id # closing[k].channel
                          => tickets'[i] = tickets[i]
      ]_vars

C15_Witness ==
    \E k \in CloseTasks :
        /\ closing[k].last = <<"mark", "ok">>
        /\ Status(closing[k].channel) = "closed"
        /\ \E i \in DOMAIN tickets :
              /\ tickets[i].channel_id # closing[k].channel
              /\ tickets[i].status = "open"

\* C16 (as claimed): a closure workflow that has marked its record comes to
\* the deletion whatever the calls in between return: if an exception has ended
\* it after the mark, the call that raised was the deletion itself.  (A task
\* at "failed" takes no further step.)
C16_DeletionAttempted ==
    \A k \in CloseTasks :
        /\ closing[k].pc = "failed"
        /\ closing[k].last[1] \in {"log", "warn", "fetch_owner", "dm", "edit",
                                   "notice", "delete"}
        => closing[k].last[1] = "delete"

\* C17: a closure workflow waits for the deletion only after its closure
\* notice was sent, and the step that calls channel.delete is taken by a task
\* whose last call was that notice, sent successfully, and that has slept at
\* least 10 time units since.
C17_DeleteAfterGrace ==
    /\ [](\A k \in CloseTasks :
            closing[k].pc = "sleep" => closing[k].last = <<"notice", "ok">>)
    /\ [][\A k \in CloseTasks :
            Stepped(k) /\ closing'[k].last[1] = "delete" =>
                /\ closing[k].last = <<"notice", "ok">>
                /\ closing[k].slept >= 10
         ]_vars

C17_Witness ==
    \E k \in CloseTasks :
        /\ closing[k].last = <<"delete", "ok">>
        /\ closing[k].slept >= 10
        /\ closing[k].channel \in deleted

\* C18: when create_ticket_record fails after the channel was created, the
\* step changes neither the table nor the platform's channels, the workflow
\* ends there (no announcement, no acknowledgment, no other call), and from
\* then on the channel exists and has no row.
C18_InsertFailureOrphans ==
    /\ [](\A w \in CreateTasks :
            creating[w].last = <<"insert", "fail">> =>
                /\ creating[w].pc = "failed"
                /\ creating[w].channel \in channels
                /\ creating[w].channel \notin deleted
                /\ ~HasRow(tickets, creating[w].channel))
    /\ [][\A w \in CreateTasks :
            /\ creating[w].pc = "insert"
                 /\ creating'[w].last = <<"insert", "fail">>
                  => UNCHANGED <<tickets, channels, deleted>>
            /\ creating[w].last = <<"insert", "fail">>
                  => creating'[w] = creating[w]
         ]_vars

C18_Witness ==
    \E w \in CreateTasks :
        /\ creating[w].last = <<"insert", "fail">>
        /\ creating[w].channel \in channels
        /\ ~HasRow(tickets, creating[w].channel)
        /\ \E k \in CloseTasks :
              /\ closing[k].channel = creating[w].channel
              /\ closing[k].last = <<"not_a_ticket", "ok">>

\* The targets an overlay allows something to.
Granted(ov) == {p \in DOMAIN ov : ov[p].allow # {}}

C20_AckAfterRow ==
    /\ [](\A w \in CreateTasks :
            creating[w].last = <<"followup", "ok">> =>
                /\ HasRow(tickets, creating[w].channel)
                /\ get_ticket_by_channel(tickets, creating[w].channel).owner_id
                      = creating[w].author
                /\ get_ticket_by_channel(tickets, creating[w].channel).guild_id
                      = creating[w].guild)
    /\ [][\A w \in CreateTasks :
            creating'[w] # creating[w] /\ creating'[w].last[1] = "followup" =>
                /\ creating[w].last = <<"announce", "ok">>
                /\ HasRow(tickets, creating[w].channel)
         ]_vars

C20_Witness ==
    \E w \in CreateTasks :
        /\ creating[w].last = <<"followup", "ok">>
        /\ creating[w].pc = "done"
        /\ creating[w].author = 2
        /\ Status(creating[w].channel) = "closed"

====
